---- MODULE Spec2Model ----
(***************************************************************************)
(* Model of app.py: the meme generator's response unwrapping, file naming  *)
(* and persistence, the sequential per-row generation loop of tab 3, the   *)
(* marketing-data step of tab 2 and the Excel export.                      *)
(***************************************************************************)
EXTENDS Integers, Sequences, FiniteSets, TLC

\* ------------------------------------------------------------------ bounds
MaxRows == 2        \* rows of marketing data in the session specification
MaxChunks == 2      \* chunks one streamed response delivers
MaxParts == 2       \* parts one content object carries
MaxCands == 2       \* candidates of a non-streaming response
MaxClock == 1       \* seconds the wall clock advances
MaxCalls == 1       \* calls of extract_and_save_images

\* ------------------------------------------------------- program constants
ExpectedRows == 10  \* "Generate 10 rows of marketing data"
NumFields == 8      \* the eight names passed to read_csv

\* ------------------------------------------------------------ Python values
None == [py |-> "None"]
Missing == [py |-> "missing"]          \* hasattr(...) is False / key not in session_state
List(items) == [py |-> "list", items |-> items]
NoStr == "<None>"                      \* None in a string-typed field
NoAttr == "<missing>"                  \* a string-typed attribute that does not exist

\* Python truthiness of a structured value: None and the empty list are falsy.
Truthy(x) == x # None /\ x # Missing /\ (x.py = "list" => x.items # <<>>)

\* hasattr(obj, name) for a structured field.
HasAttr(x) == x # Missing

\* Truthiness of a string-typed field.
TruthyStr(s) == s # NoStr /\ s # NoAttr /\ s # ""

\* ------------------------------------------------------ response structure
Blob(data, mime) == [py |-> "Blob", data |-> data, mime_type |-> mime]
Part(text, inline) == [py |-> "Part", text |-> text, inline_data |-> inline]
Content(parts) == [py |-> "Content", parts |-> parts]
Candidate(content) == [py |-> "Candidate", content |-> content]
Response(cands, parts) == [py |-> "Response", candidates |-> cands, parts |-> parts]

\* The parts a streamed chunk can carry: nothing, a blob without bytes, a PNG
\* with a text, a JPEG, an image of a type mimetypes does not know, and an image
\* whose mime_type is None.
MimeTypes == {"image/jpeg", "application/x-unknown", NoStr}
Parts ==
    {Part(NoStr, None), Part(NoStr, Blob("", "image/png")),
     Part("hello", Blob("bytes", "image/png"))}
        \cup {Part(NoStr, Blob("bytes", m)) : m \in MimeTypes}

SeqsUpTo(S, n) == UNION {[1..k -> S] : k \in 0..n}

\* ------------------------------------------------------------- file naming
\* mimetypes.guess_extension for the types of the model; None when unknown.
guess_extension(mime) ==
    CASE mime = "image/png" -> ".png"
      [] mime = "image/jpeg" -> ".jpg"
      [] OTHER -> NoStr

\* getattr(part.inline_data, 'mime_type', 'image/png')
MimeOf(blob) == IF blob.mime_type = NoAttr THEN "image/png" ELSE blob.mime_type

\* guess_extension(None) raises AttributeError (None has no .lower()).
ExtRaises(blob) == MimeOf(blob) = NoStr

\* ext = mimetypes.guess_extension(mime_type) or '.png'
ExtOf(blob) ==
    LET e == guess_extension(MimeOf(blob)) IN IF e = NoStr THEN ".png" ELSE e

\* A file name is the sequence of the tokens its f-string joins:
\* f"{save_prefix}_{file_index}{ext}" with save_prefix = f"meme_{idx}".
MemePrefix(idx) == <<"meme", idx>>
StreamFilename(save_prefix, file_index, ext) == save_prefix \o <<file_index, ext>>

\* f"{prefix}_{timestamp}_{i}{ext}" with prefix = "basic".
BasicFilename(prefix, timestamp, i, ext) == <<prefix, timestamp, i, ext>>

\* part.inline_data and part.inline_data.data
HasImage(part) == Truthy(part.inline_data) /\ TruthyStr(part.inline_data.data)

\* ------------------------------------------------------------ input domains
Contents == {Content(None)} \cup {Content(List(ps)) : ps \in SeqsUpTo(Parts, MaxParts)}
Candidates == {Candidate(None)} \cup {Candidate(c) : c \in Contents}

\* A streamed chunk is a GenerateContentResponse: candidates is None or a list.
Chunks ==
    {Response(None, None), Response(List(<<>>), None)}
        \cup {Response(List(<<c>>), None) : c \in Candidates}

\* The chunks the session specification draws from: one without a parts path and
\* one with two images, a PNG then a JPEG.
PngPart == Part("hello", Blob("bytes", "image/png"))
JpegPart == Part(NoStr, Blob("bytes", "image/jpeg"))
SessionChunks ==
    {Response(None, None),
     Response(List(<<Candidate(Content(List(<<PngPart, JpegPart>>)))>>), None)}

\* ------------------------------------------------------------------- state
VARIABLES
    session_state,      \* st.session_state: business_info, marketing_data, generated_images
    csv_file,           \* generated_marketing_data.csv: Missing or the frame written
    xlsx,               \* memes_export.xlsx: Missing or the saved workbook
    message,            \* the last st.success / st.error / st.warning shown
    files,              \* names of the files in the working directory
    clock,              \* datetime.now(), in seconds
    pc,                 \* "idle" | "stream" (awaiting a chunk) | "returned"
    selected_indices,   \* the rows of the running generation
    pos,                \* position of the loop in selected_indices (1-based)
    generated_images,   \* the script's list, rebuilt by each run
    save_prefix,        \* generate_image_streaming's save_prefix
    saved_files,        \* generate_image_streaming's accumulator
    file_index,         \* generate_image_streaming's file_index
    nchunks,            \* chunks the open stream has delivered
    persisted,          \* names save_binary_file wrote for the open request
    ret,                \* what generate_image_streaming returned to the loop
    inflight,           \* rows whose request is open
    issued,             \* rows whose request the running generation has issued
    results,            \* per finished request of the running generation
    calls,              \* calls of extract_and_save_images
    response,           \* the response extract_and_save_images was last given
    basic_ret           \* what extract_and_save_images last returned, or that it raised

vars == <<session_state, csv_file, xlsx, message, files, clock, pc,
          selected_indices, pos, generated_images, save_prefix, saved_files,
          file_index, nchunks, persisted, ret, inflight, issued,
          results, calls, response, basic_ret>>

sessionVars == <<session_state, csv_file, xlsx, message>>
loopVars == <<selected_indices, pos, generated_images, issued, results>>
streamVars == <<save_prefix, saved_files, file_index, nchunks, persisted>>
basicVars == <<clock, calls, response, basic_ret>>

NoRet == [value |-> <<>>, failed |-> FALSE, propagated |-> FALSE]

\* Nothing has run: no file written, no request made.
InitRest ==
    /\ csv_file = Missing
    /\ xlsx = Missing
    /\ message = ""
    /\ files = {}
    /\ clock = 0
    /\ pc = "idle"
    /\ selected_indices = <<>>
    /\ pos = 0
    /\ generated_images = <<>>
    /\ save_prefix = <<>>
    /\ saved_files = <<>>
    /\ file_index = 0
    /\ nchunks = 0
    /\ persisted = <<>>
    /\ ret = NoRet
    /\ inflight = {}
    /\ issued = <<>>
    /\ results = <<>>
    /\ calls = 0
    /\ response = None
    /\ basic_ret = [value |-> <<>>, raised |-> FALSE]

Init ==
    /\ session_state = [business_info |-> Missing, marketing_data |-> Missing,
                        generated_images |-> Missing]
    /\ InitRest

\* ------------------------------------------------------- save_binary_file
\* The disk and the request's accumulator travel together through one chunk.
SaveBinaryFile(acc, file_name) ==
    [acc EXCEPT !.files = @ \cup {file_name}, !.persisted = Append(@, file_name)]

\* ------------------------------------------------ generate_image_streaming
\* StreamPart with the index left where it was after a save.
StreamPart_stuck(acc, part, prefix) ==
    IF HasImage(part)
    THEN IF ExtRaises(part.inline_data)
         THEN [acc EXCEPT !.raised = TRUE]
         ELSE LET filename == StreamFilename(prefix, acc.file_index, ExtOf(part.inline_data))
                  written == SaveBinaryFile(acc, filename)
              IN  [written EXCEPT !.saved_files = Append(@, filename)]
    ELSE acc

\* Lines 238-248: one part of a chunk. The text is printed only.
StreamPart(acc, part, prefix) ==
    IF HasImage(part)
    THEN IF ExtRaises(part.inline_data)
         THEN [acc EXCEPT !.raised = TRUE]
         ELSE LET filename == StreamFilename(prefix, acc.file_index, ExtOf(part.inline_data))
                  written == SaveBinaryFile(acc, filename)
              IN  [written EXCEPT !.saved_files = Append(@, filename),
                                  !.file_index = @ + 1]
    ELSE acc

\* Line 236: for part in chunk.candidates[0].content.parts, ended by an exception.
RECURSIVE StreamParts(_, _, _)
StreamParts(acc, parts, prefix) ==
    IF parts = <<>> \/ acc.raised
    THEN acc
    ELSE StreamParts(StreamPart(acc, Head(parts), prefix), Tail(parts), prefix)

\* Lines 231-234: the guard that skips a chunk. chunk.candidates[0] of an empty
\* list raises IndexError.
ChunkCheck(chunk) ==
    IF chunk.candidates = None THEN "continue"
    ELSE IF chunk.candidates.items = <<>> THEN "raise"
    ELSE IF chunk.candidates.items[1].content = None THEN "continue"
    ELSE IF chunk.candidates.items[1].content.parts = None THEN "continue"
    ELSE "parts"

\* Lines 229-256: the body of the loop over the stream, for one chunk.
StreamBody(acc, chunk, prefix) ==
    LET check == ChunkCheck(chunk) IN
    IF check = "continue" THEN acc
    ELSE IF check = "raise" THEN [acc EXCEPT !.raised = TRUE]
    ELSE StreamParts(acc, chunk.candidates.items[1].content.parts.items, prefix)

\* StreamReturn with an except clause that hands back an empty list.
StreamReturn_empty(acc_saved, failed) ==
    [value |-> IF failed THEN <<>> ELSE acc_saved, failed |-> failed, propagated |-> FALSE]

\* Lines 258-263: what the function hands back: the accumulator, whether the
\* stream ended or an exception was caught.
StreamReturn(acc_saved, failed) ==
    [value |-> acc_saved, failed |-> failed, propagated |-> FALSE]

\* CloseRequest for a call that returns while its stream is still open.
CloseRequest_leak(open, idx) == open

\* The stream is closed when the function returns.
CloseRequest(open, idx) == open \ {idx}

Return(value, failed) ==
    /\ pc' = "returned"
    /\ ret' = StreamReturn(value, failed)
    /\ inflight' = CloseRequest(inflight, selected_indices[pos])

\* The service delivers the next chunk of the open stream.
StreamChunk(chunk) ==
    /\ pc = "stream"
    /\ nchunks < MaxChunks
    /\ LET acc0 == [saved_files |-> saved_files, file_index |-> file_index,
                    files |-> files,
                    persisted |-> persisted, raised |-> FALSE]
           acc == StreamBody(acc0, chunk, save_prefix)
       IN  /\ saved_files' = acc.saved_files
           /\ file_index' = acc.file_index
           /\ files' = acc.files
           /\ persisted' = acc.persisted
           /\ IF acc.raised
              THEN Return(acc.saved_files, TRUE)
              ELSE /\ pc' = "stream"
                   /\ UNCHANGED <<ret, inflight>>
    /\ nchunks' = nchunks + 1
    /\ UNCHANGED <<sessionVars, loopVars, basicVars, save_prefix>>

\* The stream ends: line 259.
StreamEnd ==
    /\ pc = "stream"
    /\ Return(saved_files, FALSE)
    /\ UNCHANGED <<sessionVars, loopVars, basicVars, files,
                   save_prefix, saved_files, file_index, nchunks, persisted>>

\* The service call raises while the request is issued or a chunk awaited: line 261.
StreamRaise ==
    /\ pc = "stream"
    /\ Return(saved_files, TRUE)
    /\ UNCHANGED <<sessionVars, loopVars, basicVars, files,
                   save_prefix, saved_files, file_index, nchunks, persisted>>


\* -------------------------------------------------------------- tab 1
\* Lines 290-299: the "Proceed" button.
SubmitBusinessInfo(business_name, website, about_business) ==
    /\ pc = "idle"
    /\ IF business_name = "" \/ website = "" \/ about_business = ""
       THEN /\ message' = "Please fill in all fields."
            /\ UNCHANGED session_state
       ELSE /\ session_state' = [session_state EXCEPT !.business_info =
                 [name |-> business_name, website |-> website, about |-> about_business]]
            /\ message' = "Business info saved! Go to Step 2."
    /\ UNCHANGED <<csv_file, xlsx, files, pc, loopVars, streamVars,
                   ret, inflight, basicVars>>

\* -------------------------------------------------------------- tab 2
NaN == <<0, 0>>

\* The text of an AI reply is the sequence of its lines' field counts; the field
\* at line r, position c is the pair <<r, c>>.
CsvText(n, k, w) == [i \in 1..n |-> IF i = k THEN w ELSE NumFields]

\* pandas.read_csv(..., header=None, names=<8 names>): an empty text raises
\* EmptyDataError; a line after the first with more fields than the names raises
\* ParserError ("Expected 8 fields in line i, saw 9"); a short line is padded
\* with NaN.
ParseFails(text) ==
    \/ text = <<>>
    \/ \E i \in 2..Len(text) : text[i] > NumFields

Cell(text, r, c) == IF c <= text[r] THEN <<r, c>> ELSE NaN

FrameRow(text, r) ==
    [meme_template |-> Cell(text, r, 1), prompt |-> Cell(text, r, 2),
     company_background |-> Cell(text, r, 3), marketing_message |-> Cell(text, r, 4),
     call_to_action |-> Cell(text, r, 5), target_audience |-> Cell(text, r, 6),
     platform |-> Cell(text, r, 7), theme |-> Cell(text, r, 8)]

read_csv(text) == [py |-> "DataFrame", rows |-> [r \in 1..Len(text) |-> FrameRow(text, r)]]

\* Lines 303-342: the "Generate Marketing Data CSV" button. reply is what the
\* text model answers: it raises, or it returns a text.
\* GenerateMarketingData with the button shown whether or not step 1 is done.
GenerateMarketingData_ungated(reply) ==
    /\ pc = "idle"
    /\ IF reply.raised \/ ParseFails(reply.text)
       THEN /\ message' = "Failed to generate CSV"
            /\ UNCHANGED <<session_state, csv_file>>
       ELSE /\ session_state' = [session_state EXCEPT !.marketing_data = read_csv(reply.text)]
            /\ csv_file' = read_csv(reply.text)
            /\ message' = "Marketing data generated!"
    /\ UNCHANGED <<xlsx, files, pc, loopVars, streamVars, ret, inflight,
                   basicVars>>

\* Lines 303-342: tab 2. The button exists only when business_info is stored.
GenerateMarketingData(reply) ==
    /\ pc = "idle"
    /\ session_state.business_info # Missing
    /\ IF reply.raised \/ ParseFails(reply.text)
       THEN /\ message' = "Failed to generate CSV"
            /\ UNCHANGED <<session_state, csv_file>>
       ELSE /\ session_state' = [session_state EXCEPT !.marketing_data = read_csv(reply.text)]
            /\ csv_file' = read_csv(reply.text)
            /\ message' = "Marketing data generated!"
    /\ UNCHANGED <<xlsx, files, pc, loopVars, streamVars, ret, inflight,
                   basicVars>>

Replies(texts) == {[raised |-> TRUE, text |-> <<>>]} \cup {[raised |-> FALSE, text |-> t] : t \in texts}

\* Replies of the session specification: up to MaxRows well-formed lines.
SessionTexts == {CsvText(n, 0, NumFields) : n \in 0..MaxRows}

\* Replies of the marketing-data specification: no line, or one line fewer than,
\* as many as, or one more than asked for; line k, if any, a field short, or
\* (after the first line) a field long.
CsvTexts ==
    {CsvText(n, k, NumFields - 1) :
        n \in {0} \cup (ExpectedRows - 1)..(ExpectedRows + 1), k \in 0..(ExpectedRows + 1)}
    \cup
    {CsvText(n, k, NumFields + 1) :
        n \in {0} \cup (ExpectedRows - 1)..(ExpectedRows + 1), k \in 2..(ExpectedRows + 1)}


\* -------------------------------------------------------------- tab 3
\* Lines 352-358. The options of the multiselect: SelectAll, or a row's index.
SelectAll == -1
Range(n) == [i \in 1..n |-> i - 1]
IsInjective(q) == \A i, j \in 1..Len(q) : q[i] = q[j] => i = j
Options(n) == {q \in SeqsUpTo({SelectAll} \cup 0..(n - 1), n + 1) : IsInjective(q)}

SelectedIndices(selected_options, n) ==
    IF \E i \in 1..Len(selected_options) : selected_options[i] = SelectAll
    THEN Range(n)
    ELSE selected_options

\* Entry that keeps the file saved last.
Entry_last(idx, row, saved) ==
    [row |-> idx, image_path |-> saved[Len(saved)],
     meme_template |-> row.meme_template, prompt |-> row.prompt,
     company_background |-> row.company_background,
     marketing_message |-> row.marketing_message,
     call_to_action |-> row.call_to_action,
     target_audience |-> row.target_audience,
     platform |-> row.platform, theme |-> row.theme]

\* Lines 385-396: the entry a row with at least one saved file adds.
Entry(idx, row, saved) ==
    [row |-> idx, image_path |-> saved[1],
     meme_template |-> row.meme_template, prompt |-> row.prompt,
     company_background |-> row.company_background,
     marketing_message |-> row.marketing_message,
     call_to_action |-> row.call_to_action,
     target_audience |-> row.target_audience,
     platform |-> row.platform, theme |-> row.theme]

\* Line 383 up to the first await: the request of row idx is opened.
IssueRequest(open, idx) == open \cup {idx}

Issue(idx) ==
    /\ pc' = "stream"
    /\ save_prefix' = MemePrefix(idx)
    /\ saved_files' = <<>>
    /\ file_index' = 0
    /\ nchunks' = 0
    /\ persisted' = <<>>
    /\ inflight' = IssueRequest(inflight, idx)

\* Lines 362-383: the "Generate Memes for Selected Rows" button, up to the first
\* chunk awaited. selected_options is what the multiselect holds.
ClickGenerateMemes(selected_options) ==
    /\ pc = "idle"
    /\ session_state.marketing_data # Missing
    /\ LET n == Len(session_state.marketing_data.rows)
           sel == SelectedIndices(selected_options, n)
       IN  /\ selected_options \in Options(n)
           /\ sel # <<>>
           /\ selected_indices' = sel
           /\ pos' = 1
           /\ generated_images' = <<>>
           /\ issued' = <<sel[1]>>
           /\ results' = <<>>
           /\ Issue(sel[1])
    /\ message' = "Generating meme for Row"
    /\ UNCHANGED <<session_state, csv_file, xlsx, files, ret, basicVars>>

\* Collect that treats a failed request as one without files.
Collect_failed_empty(images, idx, row, r) ==
    IF ~r.propagated /\ ~r.failed /\ r.value # <<>>
    THEN Append(images, Entry(idx, row, r.value))
    ELSE images

\* Lines 384-397 for the row whose request returned.
Collect(images, idx, row, r) ==
    IF ~r.propagated /\ r.value # <<>>
    THEN Append(images, Entry(idx, row, r.value))
    ELSE images

\* Lines 384-402: generate_image_streaming has returned (or raised): the loop
\* records the row, then opens the next row's request or stores the run.
Tab3Continue ==
    /\ pc = "returned"
    /\ LET idx == selected_indices[pos]
           row == session_state.marketing_data.rows[idx + 1]
           images == Collect(generated_images, idx, row, ret)
       IN  /\ generated_images' = images
           /\ results' = Append(results, [row |-> idx, value |-> ret.value,
                                          failed |-> ret.failed,
                                          propagated |-> ret.propagated])
           /\ IF pos < Len(selected_indices)
              THEN /\ pos' = pos + 1
                   /\ issued' = Append(issued, selected_indices[pos + 1])
                   /\ Issue(selected_indices[pos + 1])
                   /\ UNCHANGED <<session_state, message>>
              ELSE /\ session_state' = [session_state EXCEPT !.generated_images = List(images)]
                   /\ message' = "Generated memes!"
                   /\ pc' = "idle"
                   /\ UNCHANGED <<pos, issued, streamVars, inflight>>
    /\ UNCHANGED <<csv_file, xlsx, files, selected_indices, ret,
                   basicVars>>

\* ------------------------------------------------------------- export
Headers == <<"Row", "Meme Template", "Prompt", "Company Background",
             "Marketing Message", "Call to Action", "Target Audience", "Platform",
             "Theme", "Image">>

\* ws.cell(row=r, column=c, value=v)
SetCell(wb, r, c, v) == [wb EXCEPT !.cells = (<<r, c>> :> v) @@ @]

\* Lines 412-413: the header row.
RECURSIVE WriteHeaders(_, _)
WriteHeaders(wb, col) ==
    IF col > Len(Headers) THEN wb
    ELSE WriteHeaders(SetCell(wb, 1, col, Headers[col]), col + 1)

\* WriteItem with platform and theme in each other's columns.
WriteItem_swapped(wb, row_idx, item) ==
    LET c1 == SetCell(wb, row_idx, 1, item.row)
        c2 == SetCell(c1, row_idx, 2, item.meme_template)
        c3 == SetCell(c2, row_idx, 3, item.prompt)
        c4 == SetCell(c3, row_idx, 4, item.company_background)
        c5 == SetCell(c4, row_idx, 5, item.marketing_message)
        c6 == SetCell(c5, row_idx, 6, item.call_to_action)
        c7 == SetCell(c6, row_idx, 7, item.target_audience)
        c8 == SetCell(c7, row_idx, 8, item.theme)
        c9 == SetCell(c8, row_idx, 9, item.platform)
    IN  IF item.image_path \in files
        THEN [c9 EXCEPT !.images = (<<"J", row_idx>> :> item.image_path) @@ @]
        ELSE [c9 EXCEPT !.raised = TRUE]

\* Lines 417-431: one item. XLImage(path) opens the file at export time.
WriteItem(wb, row_idx, item) ==
    LET c1 == SetCell(wb, row_idx, 1, item.row)
        c2 == SetCell(c1, row_idx, 2, item.meme_template)
        c3 == SetCell(c2, row_idx, 3, item.prompt)
        c4 == SetCell(c3, row_idx, 4, item.company_background)
        c5 == SetCell(c4, row_idx, 5, item.marketing_message)
        c6 == SetCell(c5, row_idx, 6, item.call_to_action)
        c7 == SetCell(c6, row_idx, 7, item.target_audience)
        c8 == SetCell(c7, row_idx, 8, item.platform)
        c9 == SetCell(c8, row_idx, 9, item.theme)
    IN  IF item.image_path \in files
        THEN [c9 EXCEPT !.images = (<<"J", row_idx>> :> item.image_path) @@ @]
        ELSE [c9 EXCEPT !.raised = TRUE]

\* Line 416: for row_idx, item in enumerate(generated_images, 2).
FirstDataRow == 2

RECURSIVE WriteItems(_, _, _)
WriteItems(wb, items, row_idx) ==
    IF items = <<>> \/ wb.raised THEN wb
    ELSE WriteItems(WriteItem(wb, row_idx, Head(items)), Tail(items), row_idx + 1)

EmptyWorkbook == [cells |-> <<>>, images |-> <<>>, raised |-> FALSE]

\* Lines 405-436: the "Export to Excel" button.
ExportToExcel ==
    /\ pc = "idle"
    /\ session_state.generated_images # Missing
    /\ LET wb == WriteItems(WriteHeaders(EmptyWorkbook, 1),
                            session_state.generated_images.items, FirstDataRow)
       IN  IF wb.raised
           THEN /\ message' = "FileNotFoundError"
                /\ UNCHANGED xlsx
           ELSE /\ xlsx' = [cells |-> wb.cells, images |-> wb.images]
                /\ message' = "Download Excel"
    /\ UNCHANGED <<session_state, csv_file, files, pc, loopVars,
                   streamVars, ret, inflight, basicVars>>

\* ------------------------------------------------ extract_and_save_images
\* The parts of the non-streaming responses: extract_and_save_images reads
\* inline_data only.
BasicParts ==
    {Part(NoStr, b) : b \in {None, Blob("", "image/png"), Blob("bytes", NoAttr),
                             Blob("bytes", "image/jpeg")}}
BasicPartLists == {Missing, None} \cup {List(ps) : ps \in SeqsUpTo(BasicParts, MaxParts)}
BasicCandidates ==
    {Candidate(Missing), Candidate(None)} \cup {Candidate(Content(ps)) : ps \in BasicPartLists}
BasicCandidateLists(n) ==
    {Missing, None} \cup {List(cs) : cs \in SeqsUpTo(BasicCandidates, n)}

\* Either shape: a candidates wrapper of up to n candidates, or flat parts without
\* usable candidates.
Responses(n) ==
    {None}
        \cup {Response(cs, Missing) : cs \in BasicCandidateLists(n)}
        \cup {Response(cs, ps) : cs \in {Missing, None, List(<<>>)}, ps \in BasicPartLists}

\* The places of a response where a part can sit: <<candidate, part>>.
Places == (1..MaxCands) \X (1..MaxParts)
Before(p, q) == p[1] < q[1] \/ (p[1] = q[1] /\ p[2] <= q[2])

\* datetime.now() when the part at place q is saved: the clock advances by one
\* second before each place of ticks.
Now(ticks, q) == clock + Cardinality({p \in ticks : Before(p, q)})

\* Lines 137-144 and 149-156: one part, at index i of its parts list.
ExtractPart(acc, part, prefix, timestamp, i) ==
    IF HasAttr(part.inline_data) /\ Truthy(part.inline_data)
         /\ TruthyStr(part.inline_data.data)
    THEN IF ExtRaises(part.inline_data)
         THEN [acc EXCEPT !.raised = TRUE]
         ELSE LET filename == BasicFilename(prefix, timestamp, i, ExtOf(part.inline_data))
                  written == SaveBinaryFile(acc, filename)
              IN  [written EXCEPT !.saved_files = Append(@, filename)]
    ELSE acc

\* Lines 136 and 148: for i, part in enumerate(parts); i counts from 0.
RECURSIVE ExtractParts(_, _, _, _, _, _)
ExtractParts(acc, parts, prefix, ticks, c, i) ==
    IF parts = <<>> \/ acc.raised THEN acc
    ELSE ExtractParts(ExtractPart(acc, Head(parts), prefix, Now(ticks, <<c, i + 1>>), i),
                      Tail(parts), prefix, ticks, c, i + 1)

\* enumerate(None) raises TypeError.
ExtractList(acc, parts, prefix, ticks, c) ==
    IF parts = None
    THEN [acc EXCEPT !.raised = TRUE]
    ELSE ExtractParts(acc, parts.items, prefix, ticks, c, 0)

\* Lines 134-136: one candidate.
ExtractCandidate(acc, candidate, prefix, ticks, c) ==
    IF HasAttr(candidate.content) /\ Truthy(candidate.content)
         /\ HasAttr(candidate.content.parts)
    THEN ExtractList(acc, candidate.content.parts, prefix, ticks, c)
    ELSE acc

\* Line 133: for candidate in response.candidates.
RECURSIVE ExtractCandidates(_, _, _, _, _)
ExtractCandidates(acc, candidates, prefix, ticks, c) ==
    IF candidates = <<>> \/ acc.raised THEN acc
    ELSE ExtractCandidates(ExtractCandidate(acc, Head(candidates), prefix, ticks, c),
                           Tail(candidates), prefix, ticks, c + 1)

\* Lines 124-158.
extract_and_save_images(acc, resp, prefix, ticks) ==
    IF resp = None THEN acc
    ELSE IF HasAttr(resp.candidates) /\ Truthy(resp.candidates)
    THEN ExtractCandidates(acc, resp.candidates.items, prefix, ticks, 1)
    ELSE IF HasAttr(resp.parts)
    THEN ExtractList(acc, resp.parts, prefix, ticks, 1)
    ELSE acc

\* A call of extract_and_save_images(resp, "basic"), as generate_image_basic makes it.
CallExtract(resp, ticks) ==
    /\ pc = "idle"
    /\ calls < MaxCalls
    /\ clock + Cardinality(ticks) <= MaxClock
    /\ LET acc0 == [saved_files |-> <<>>, files |-> files, persisted |-> <<>>,
                    raised |-> FALSE]
           acc == extract_and_save_images(acc0, resp, "basic", ticks)
       IN  /\ files' = acc.files
           /\ basic_ret' = [value |-> acc.saved_files, raised |-> acc.raised]
    /\ response' = resp
    /\ calls' = calls + 1
    /\ clock' = clock + Cardinality(ticks)
    /\ UNCHANGED <<sessionVars, pc, loopVars, streamVars, ret, inflight>>

\* A second passes between two calls.
Tick ==
    /\ pc = "idle"
    /\ clock < MaxClock
    /\ clock' = clock + 1
    /\ UNCHANGED <<sessionVars, files, pc, loopVars, streamVars, ret, inflight,
                   calls, response, basic_ret>>

\* ------------------------------------------------------ specifications
Filled == {"", "Acme"}

Next ==
    \/ \E n, w, a \in Filled : SubmitBusinessInfo(n, w, a)
    \/ \E reply \in Replies(SessionTexts) : GenerateMarketingData(reply)
    \/ \E opts \in Options(MaxRows) : ClickGenerateMemes(opts)
    \/ \E chunk \in SessionChunks : StreamChunk(chunk)
    \/ StreamEnd
    \/ StreamRaise
    \/ Tab3Continue
    \/ ExportToExcel

Spec == Init /\ [][Next]_vars


\* One request at a time into an empty working directory, any chunk the service
\* can deliver.
InitStream ==
    /\ InitRest
    /\ session_state =
         [business_info |-> [name |-> "Acme", website |-> "Acme", about |-> "Acme"],
          marketing_data |-> read_csv(CsvText(MaxRows, 0, NumFields)),
          generated_images |-> Missing]

NextStream ==
    \/ \E r \in 0..(MaxRows - 1) : files = {} /\ ClickGenerateMemes(<<r>>)
    \/ \E chunk \in Chunks : StreamChunk(chunk)
    \/ StreamEnd
    \/ StreamRaise
    \/ Tab3Continue

SpecStream == InitStream /\ [][NextStream]_vars

\* One generation run over any selection of rows, into an empty working
\* directory, with the chunks of the session specification.
NextRun ==
    \/ \E opts \in Options(MaxRows) : files = {} /\ ClickGenerateMemes(opts)
    \/ \E chunk \in SessionChunks : StreamChunk(chunk)
    \/ StreamEnd
    \/ StreamRaise
    \/ Tab3Continue

SpecRun == InitStream /\ [][NextRun]_vars

\* The marketing-data step alone, with replies of any length.
NextCsv ==
    \/ \E n, w, a \in Filled : SubmitBusinessInfo(n, w, a)
    \/ \E reply \in Replies(CsvTexts) : GenerateMarketingData(reply)

SpecCsv == Init /\ [][NextCsv]_vars

\* extract_and_save_images alone, on any response.
NextBasic ==
    \/ \E resp \in Responses(MaxCands), ticks \in SUBSET Places : CallExtract(resp, ticks)
    \/ Tick

SpecBasic == Init /\ [][NextBasic]_vars


\* ================================================================ claims

\* The level at which a chunk's candidates -> content -> parts path is absent.
ChunkPath(chunk) ==
    IF chunk.candidates = None THEN "candidates_none"
    ELSE IF chunk.candidates.items = <<>> THEN "candidates_empty"
    ELSE IF chunk.candidates.items[1].content = None THEN "content_none"
    ELSE IF chunk.candidates.items[1].content.parts = None THEN "parts_none"
    ELSE "present"

AbsentPaths == {"candidates_none", "candidates_empty", "content_none", "parts_none"}

\* C1: every chunk whose candidates -> content -> parts path is absent at any
\* level (candidates None or an empty list, content None, parts None) is skipped
\* as a no-op: nothing is saved for it and the stream is still being consumed
\* after it, so that the image parts of later chunks are persisted.
C1_AbsentChunkSkipped ==
    [][\A chunk \in Chunks :
          (ChunkPath(chunk) \in AbsentPaths /\ StreamChunk(chunk))
              => (pc' = "stream" /\ saved_files' = saved_files /\ files' = files)]_vars

\* C2: generate_image_streaming never propagates an exception: when the stream
\* fails after K image parts were persisted, the function returns exactly the
\* K names save_binary_file wrote, in the order they were written.
C2_FailureReturnsPersisted ==
    (pc = "returned" /\ ret.failed) => (~ret.propagated /\ ret.value = persisted)

\* C2 witness: a stream failed after two images were persisted.
C2_Witness == pc = "returned" /\ ret.failed /\ Len(persisted) = 2

\* C3: within one call the index starts at 0 and advances by one per persisted
\* image part only: it equals the length of the accumulator and the number of
\* files written, and the k-th name (k from 0) is the prefix, k and an extension.
C3_IndexIsAccumulatorLength ==
    pc \in {"stream", "returned"} =>
        /\ file_index = Len(saved_files)
        /\ file_index = Len(persisted)
        /\ \A k \in 1..Len(saved_files) :
              /\ saved_files[k] = persisted[k]
              /\ \E ext \in {".png", ".jpg"} :
                    saved_files[k] = StreamFilename(save_prefix, k - 1, ext)

\* C3 witness: three images over two chunks, after a chunk that carried none or one.
C3_Witness == pc = "stream" /\ nchunks = 2 /\ file_index = 3


\* C4: no write of save_binary_file targets a name that was written earlier in
\* the session: across the requests of a run and across repeated runs, every
\* persisted file name is new.
C4_EveryWriteIsNew ==
    [][\A k \in (Len(persisted) + 1)..Len(persisted') : persisted'[k] \notin files]_vars

\* C5: requests are strictly sequential: at most one request is open, and while
\* the request of the N-th selected row is open every earlier selected row has
\* returned, in selection order, with all its files on disk.
C5_OneRequestInFlight ==
    /\ Cardinality(inflight) <= 1
    /\ pc = "stream" =>
          /\ inflight = {selected_indices[pos]}
          /\ Len(results) = pos - 1
          /\ \A i \in 1..(pos - 1) :
                /\ results[i].row = selected_indices[i]
                /\ \A k \in 1..Len(results[i].value) : results[i].value[k] \in files
    /\ pc # "stream" => inflight = {}

\* C5 witness: the second row's request is open after the first row saved files.
C5_Witness == pc = "stream" /\ pos = 2 /\ results[1].value # <<>>

\* The entries of the running generation that belong to row idx.
EntriesOf(idx) == {k \in 1..Len(generated_images) : generated_images[k].row = idx}

\* C6 as stated: a failed request adds no entry for its row.
C6_FailedRowAddsNoEntry ==
    \A i \in 1..Len(results) : results[i].failed => EntriesOf(results[i].row) = {}

\* C6 as amended: a failed request does not stop the batch. Its row adds an entry
\* exactly when files were persisted before the failure (none when there were
\* none), and every selected row is issued once, in selection order.
C6_FailureKeepsBatchGoing ==
    /\ \A i \in 1..Len(results) :
          results[i].failed =>
              (EntriesOf(results[i].row) # {} <=> results[i].value # <<>>)
    /\ issued = SubSeq(selected_indices, 1, pos)
    /\ (pc = "idle" /\ results # <<>>) => issued = selected_indices

\* C6 witness: a finished run whose first row failed after saving files and whose
\* second row was issued all the same.
C6_Witness ==
    /\ pc = "idle"
    /\ Len(results) = 2
    /\ results[1].failed
    /\ results[1].value # <<>>
    /\ issued = selected_indices


\* A row of a frame with all its eight fields present.
WellFormedRow(row) ==
    /\ row.meme_template # NaN /\ row.prompt # NaN /\ row.company_background # NaN
    /\ row.marketing_message # NaN /\ row.call_to_action # NaN
    /\ row.target_audience # NaN /\ row.platform # NaN /\ row.theme # NaN

\* C7: marketing data is accepted only when the reply holds exactly 10 rows of
\* exactly 8 fields; any other reply ends in an error, so what the session and the
\* CSV file hold is always 10 well-formed rows.
C7_OnlyTenByEightAccepted ==
    /\ session_state.marketing_data # Missing =>
          /\ Len(session_state.marketing_data.rows) = ExpectedRows
          /\ \A r \in 1..Len(session_state.marketing_data.rows) :
                WellFormedRow(session_state.marketing_data.rows[r])
    /\ csv_file # Missing => Len(csv_file.rows) = ExpectedRows

\* The items the export reads.
Items == session_state.generated_images.items

\* C8: the export holds one header row and one data row per entry of
\* generated_images, in order: sheet row i+2 holds the row index and the eight
\* fields of the i-th entry (i from 0) in columns 1 to 9, and the image anchored at
\* J(i+2) is the file at the i-th entry's image_path.
C8_ExportMirrorsGeneratedImages ==
    message = "Download Excel" =>
        /\ DOMAIN xlsx.cells =
              {<<1, c>> : c \in 1..10} \cup ((2..(Len(Items) + 1)) \X (1..9))
        /\ \A c \in 1..10 : xlsx.cells[<<1, c>>] = Headers[c]
        /\ DOMAIN xlsx.images = {<<"J", r>> : r \in 2..(Len(Items) + 1)}
        /\ \A i \in 0..(Len(Items) - 1) :
              LET item == Items[i + 1] IN
              /\ xlsx.cells[<<i + 2, 1>>] = item.row
              /\ xlsx.cells[<<i + 2, 2>>] = item.meme_template
              /\ xlsx.cells[<<i + 2, 3>>] = item.prompt
              /\ xlsx.cells[<<i + 2, 4>>] = item.company_background
              /\ xlsx.cells[<<i + 2, 5>>] = item.marketing_message
              /\ xlsx.cells[<<i + 2, 6>>] = item.call_to_action
              /\ xlsx.cells[<<i + 2, 7>>] = item.target_audience
              /\ xlsx.cells[<<i + 2, 8>>] = item.platform
              /\ xlsx.cells[<<i + 2, 9>>] = item.theme
              /\ xlsx.images[<<"J", i + 2>>] = item.image_path
              /\ item.image_path \in files

\* C8 witness: an export of two entries, generated in the order row 1, row 0.
C8_Witness ==
    /\ message = "Download Excel"
    /\ Len(Items) = 2
    /\ Items[1].row = 1
    /\ Items[2].row = 0

\* C9: extract_and_save_images never raises, whatever level of the response's
\* structure is absent, None or empty. (No part of Responses has a MIME type that
\* fails: the structure is the one thing that can.)
C9_ExtractNeverRaises == ~basic_ret.raised

\* The finished requests of the last run that returned at least one file.
RECURSIVE WithFiles(_)
WithFiles(rs) ==
    IF rs = <<>> THEN <<>>
    ELSE IF Head(rs).value # <<>> THEN <<Head(rs)>> \o WithFiles(Tail(rs))
    ELSE WithFiles(Tail(rs))

\* C10: after a run, generated_images is exactly that run's result: one entry per
\* selected row whose request returned a file, in selection order, the entry's
\* row being the row's index and its image_path the file saved first (index 0).
C10_GeneratedImagesIsLastRun ==
    (pc = "idle" /\ results # <<>>) =>
        /\ session_state.generated_images # Missing
        /\ Len(results) = Len(selected_indices)
        /\ \A i \in 1..Len(results) : results[i].row = selected_indices[i]
        /\ Len(Items) = Len(WithFiles(results))
        /\ \A k \in 1..Len(Items) :
              /\ Items[k].row = WithFiles(results)[k].row
              /\ Items[k].image_path = WithFiles(results)[k].value[1]
              /\ \E ext \in {".png", ".jpg"} :
                    Items[k].image_path = StreamFilename(MemePrefix(Items[k].row), 0, ext)

\* C10 witness: a run of two rows after an earlier run: the first row, which has
\* files of the earlier run on disk, returned nothing this time; the second row
\* returned several files and has the one entry.
C10_Witness ==
    /\ pc = "idle"
    /\ Len(results) = 2
    /\ results[1].value = <<>>
    /\ \E f \in files : f[2] = results[1].row
    /\ Len(results[2].value) > 1
    /\ Len(Items) = 1

\* What the session shows after a text-generation request, and after an export.
CsvMessages == {"Failed to generate CSV", "Marketing data generated!"}
ExportMessages == {"Download Excel", "FileNotFoundError"}

\* The rows of the selection the current run iterates over.
Selected == {selected_indices[j] : j \in 1..Len(selected_indices)}

\* C11: the steps are gated in order: business_info is stored only with name,
\* website and about all non-empty; a text-generation request has been made only
\* with business_info stored; an image request has been issued only with
\* marketing_data stored and for a row of a non-empty selection; an export has
\* been performed only with generated_images stored, which only a generation run
\* stores.
C11_StepsGatedInOrder ==
    /\ session_state.business_info # Missing =>
          /\ session_state.business_info.name # ""
          /\ session_state.business_info.website # ""
          /\ session_state.business_info.about # ""
    /\ (message \in CsvMessages \/ csv_file # Missing
            \/ session_state.marketing_data # Missing) =>
          session_state.business_info # Missing
    /\ (pc # "idle" \/ inflight # {} \/ issued # <<>>) =>
          /\ session_state.marketing_data # Missing
          /\ selected_indices # <<>>
          /\ \A i \in 1..Len(issued) : issued[i] \in Selected
          /\ inflight \subseteq Selected
    /\ (message \in ExportMessages \/ xlsx # Missing) =>
          session_state.generated_images # Missing
    /\ session_state.generated_images # Missing =>
          /\ session_state.marketing_data # Missing
          /\ issued # <<>>

\* C11 witness: a session that went through all four steps: the form was filled,
\* the marketing data generated, one row's meme generated and exported.
C11_Witness ==
    /\ session_state.business_info # Missing
    /\ csv_file # Missing
    /\ Len(issued) = 1
    /\ session_state.generated_images # Missing
    /\ Len(Items) = 1
    /\ xlsx # Missing
    /\ message = "Download Excel"

====
